---- MODULE Spec2Model ----
(***************************************************************************)
(* The dashboard of the teaser generator: the polling project cache, the   *)
(* per-card action gating and the REST calls of Dashboard.jsx, with the    *)
(* login form of Auth.jsx and the backend the calls go to.                 *)
(*                                                                         *)
(* A request lives in `inflight` from the moment a handler reaches its     *)
(* `await` until the promise settles; the sequence is kept in issue order. *)
(* The backend answers a request at any time after it was sent, and the    *)
(* answer settles at any time after that, so answers overtake each other.  *)
(***************************************************************************)
EXTENDS Integers, Sequences, FiniteSets, TLC

\* ---------------------------------------------------------------- bounds
MaxProjects == 1
MaxFiles == 1
MaxInFlight == 2

\* ------------------------------------------------------------- constants
NoToken == "null"
Tok == "jwt"
Statuses == {"pending", "processing", "completed", "failed"}
ProjectIds == 1..MaxProjects
EmptyList == << >>

VARIABLES
    token,          \* localStorage['token']
    route,          \* the route the router shows
    timer,          \* the setInterval handle of the mounted Dashboard is live
    projects,       \* Dashboard state `projects`: id -> project of the last payload
    loading,        \* Dashboard state `loading`
    newProjectName, \* Dashboard state `newProjectName`
    showNewProject, \* Dashboard state `showNewProject`
    uploading,      \* the ids of the mounted cards whose `uploading` is true
    inflight,       \* the requests awaiting their promise, in issue order
    authReq,        \* the auth form's request awaiting its promise
    authError,      \* Auth state `error`
    srv,            \* backend: id -> project
    nextId,         \* backend: the id the next created project gets
    sessionValid,   \* backend: the issued token is still accepted
    theme,          \* ThemeProvider state `theme`
    storedTheme,    \* localStorage['kelp-theme']
    dataTheme,      \* the `data-theme` attribute of the document's root element
    isOpen,         \* ThemeSwitcher state `isOpen`
    stage,          \* how far the end-to-end run has come, for the properties
    last            \* the handler that ran in the last step, for the properties

vars == <<token, route, timer, projects, loading, newProjectName, showNewProject,
          uploading, inflight, authReq, authError, srv, nextId, sessionValid,
          theme, storedTheme, dataTheme, isOpen, stage, last>>

client == <<token, route, timer, projects, loading, newProjectName, showNewProject,
            uploading>>
auth == <<authReq, authError>>
backend == <<srv, nextId, sessionValid>>
theming == <<theme, storedTheme, dataTheme, isOpen>>

\* ------------------------------------------------------------ data shapes
Project(st, has, n) == [status |-> st, hasFiles |-> has, files |-> n]

\* A request: `phase` is "sent" until the backend answers it with `code` and
\* `data`. `dash` tells whether the Dashboard whose closure awaits it is still
\* mounted, for the handlers that set Dashboard state or call fetchProjects after
\* the await; `card` tells the same of the ProjectCard, for the one handler that
\* sets card state after the await. `stale` is set once a list answer sent after
\* this request has been applied.
Msg(op, pid, kind, tk, d, c) ==
    [op |-> op, pid |-> pid, kind |-> kind, tok |-> tk, dash |-> d, card |-> c,
     phase |-> "sent", code |-> 0, data |-> EmptyList, stale |-> FALSE]

\* What the last step was: the handler (ev, op, pid), the code its await settled
\* with and the place idx its request had in `inflight`, whether it sent a
\* request, whether it raised an alert; for a list answer that was applied,
\* whether an answer to a later request had been applied before it (late) and
\* whether a project shown as completed is now shown otherwise (back); for a
\* download that succeeded, the name the blob was saved under (file); for the
\* click on the trash button, the user's answer to window.confirm (answer).
Event(ev, op, pid, code, idx, sent, alert) ==
    [ev |-> ev, op |-> op, pid |-> pid, code |-> code, idx |-> idx,
     sent |-> sent, alert |-> alert, late |-> FALSE, back |-> FALSE,
     file |-> << >>, answer |-> FALSE, was |-> ""]

RemoveAt(q, i) == [j \in 1..(Len(q) - 1) |-> IF j < i THEN q[j] ELSE q[j + 1]]

Mounted == route = "/dashboard"

\* ------------------------------------------------------------------ theme
\* The ids of `themes`, the values the theme buttons pass to setTheme.
ThemeIds == {"default", "midnight", "emerald", "sunset", "cyberpunk", "slate",
             "amethyst", "gold", "crimson", "mint"}
NoTheme == "null"   \* localStorage.getItem('kelp-theme') of a key never set
NoAttr == "null"    \* the root element has no `data-theme` attribute

\* `localStorage.getItem('kelp-theme') || 'default'`
ReadTheme(s) == IF s = NoTheme \/ s = "" THEN "default" ELSE s

\* The effect's branch on the theme: removeAttribute for 'default',
\* setAttribute otherwise.
AttrOf(t) == IF t = "default" THEN NoAttr ELSE t

\* The page as ThemeProvider's first render and effect leave it when the
\* storage held s: the state is read from the storage, the attribute follows
\* the state and the state is stored back.
ThemeLoaded(s) ==
    /\ theme = ReadTheme(s)
    /\ storedTheme = ReadTheme(s)
    /\ dataTheme = AttrOf(ReadTheme(s))
    /\ isOpen = FALSE

Init ==
    /\ token = NoToken
    /\ route = "/login"
    /\ timer = FALSE
    /\ projects = EmptyList
    /\ loading = TRUE
    /\ newProjectName = ""
    /\ showNewProject = FALSE
    /\ uploading = {}
    /\ inflight = << >>
    /\ authReq = "none"
    /\ authError = ""
    /\ srv = EmptyList
    /\ nextId = 1
    /\ sessionValid = FALSE
    /\ ThemeLoaded(NoTheme)
    /\ stage = 0
    /\ last = Event("init", "none", 0, 0, 0, FALSE, FALSE)

\* ------------------------------------------------------------ ProjectCard
\* `!project.files || project.files.length === 0`
NoFiles(p) == ~p.hasFiles \/ p.files = 0

\* ActionBar with the file input never disabled.
ActionBarIgnoresUploading(p, upl) ==
    (IF p.status = "pending"
        THEN {"upload"} \cup (IF NoFiles(p) THEN {} ELSE {"generate"})
        ELSE {})
    \cup (IF p.status = "completed"
            THEN {"download-teaser", "download-citations"} ELSE {})
    \cup (IF p.status = "failed" THEN {"retry-generate"} ELSE {})

\* ActionBar with the upload label rendered outside the `pending` block.
ActionBarUploadAlways(p, upl) ==
    (IF upl THEN {} ELSE {"upload"})
    \cup (IF p.status = "pending" /\ ~NoFiles(p) THEN {"generate"} ELSE {})
    \cup (IF p.status = "completed"
            THEN {"download-teaser", "download-citations"} ELSE {})
    \cup (IF p.status = "failed" THEN {"retry-generate"} ELSE {})

\* ActionBar without the download buttons of a completed project.
ActionBarDownloadHidden(p, upl) ==
    (IF p.status = "pending"
        THEN (IF upl THEN {} ELSE {"upload"})
             \cup (IF NoFiles(p) THEN {} ELSE {"generate"})
        ELSE {})
    \cup (IF p.status = "failed" THEN {"retry-generate"} ELSE {})

\* ActionBar with the Generate button never disabled.
ActionBarGenerateUngated(p, upl) ==
    (IF p.status = "pending"
        THEN (IF upl THEN {} ELSE {"upload"}) \cup {"generate"}
        ELSE {})
    \cup (IF p.status = "completed"
            THEN {"download-teaser", "download-citations"} ELSE {})
    \cup (IF p.status = "failed" THEN {"retry-generate"} ELSE {})

\* The controls the card's action bar renders enabled for project p, `upl` being
\* the card's `uploading` state.
ActionBar(p, upl) ==
    (IF p.status = "pending"
        THEN (IF upl THEN {} ELSE {"upload"})
             \cup (IF NoFiles(p) THEN {} ELSE {"generate"})
        ELSE {})
    \cup (IF p.status = "completed"
            THEN {"download-teaser", "download-citations"} ELSE {})
    \cup (IF p.status = "failed" THEN {"retry-generate"} ELSE {})

Enabled(pid) == ActionBar(projects[pid], pid \in uploading)

\* DeleteOffered that hides the trash button while the project is processing.
DeleteOfferedUnlessProcessing(p) == p.status # "processing"

\* The trash button of the card header: rendered for every project.
DeleteOffered(p) == TRUE

\* --------------------------------------------------------------- routing
\* The requests whose Dashboard (and so whose card) has been unmounted.
Dead(q) == [j \in 1..Len(q) |-> [q[j] EXCEPT !.dash = FALSE, !.card = FALSE]]

\* The Dashboard unmounts: its state is gone. `projects` keeps what the cache
\* held until a Dashboard mounts again, so that a handler that writes the cache
\* can be told from one that does not.
NoDashboard ==
    /\ projects' = projects
    /\ loading' = TRUE
    /\ newProjectName' = ""
    /\ showNewProject' = FALSE
    /\ uploading' = {}

\* navigate('/login'): the Dashboard, if mounted, unmounts, its state is gone
\* and its effect's cleanup clears the interval.
NavigateLogin(q) ==
    /\ route' = "/login"
    /\ timer' = FALSE
    /\ inflight' = Dead(q)
    /\ NoDashboard

\* Fetches without the test of line 27.
FetchesAlways == TRUE

\* Whether fetchProjects, called now, sends its request.
Fetches == token # NoToken

\* fetchProjects up to its await, called through a closure of a Dashboard that
\* is mounted (d) or not; q holds the requests already awaiting. With a token
\* it sends the list request and leaves the Dashboard's state to its caller.
\* `by` is kept in the request's `kind`: "refresh" for a call made by a handler
\* after its own request has succeeded, "" for the effect's and the interval's.
fetchProjectsBy(q, d, by) ==
    IF Fetches
        THEN /\ inflight' = Append(q, Msg("list", 0, by, TRUE, d, FALSE))
             /\ UNCHANGED <<route, timer>>
        ELSE NavigateLogin(q)

\* fetchProjects that clears the interval when a handler calls it.
fetchProjectsClearingTimer(q, d) ==
    IF Fetches
        THEN /\ inflight' = Append(q, Msg("list", 0, "refresh", TRUE, d, FALSE))
             /\ timer' = FALSE
             /\ UNCHANGED route
        ELSE NavigateLogin(q)

\* fetchProjects as createProject calls it, and `refresh` as the cards do.
fetchProjects(q, d) == fetchProjectsBy(q, d, "refresh")

\* The Dashboard mounts: fresh state, then the effect calls fetchProjects and
\* starts the interval.
MountDashboard(tk) ==
    /\ projects' = EmptyList
    /\ loading' = TRUE
    /\ newProjectName' = ""
    /\ showNewProject' = FALSE
    /\ uploading' = {}
    /\ IF tk = NoToken
          THEN /\ route' = "/login"
               /\ timer' = FALSE
               /\ inflight' = Dead(inflight)
          ELSE /\ route' = "/dashboard"
               /\ timer' = TRUE
               /\ inflight' = Append(Dead(inflight), Msg("list", 0, "", TRUE, TRUE, FALSE))

\* The user opens /dashboard in the address bar (not while a form submission
\* is pending).
OpenDashboard ==
    /\ ~Mounted
    /\ authReq = "none"
    /\ Len(inflight) < MaxInFlight
    /\ MountDashboard(token)
    /\ authError' = ""
    /\ last' = Event("mount", "list", 0, 0, 0, token # NoToken, FALSE)
    /\ UNCHANGED <<token, authReq, backend>>

\* LeaveDashboard without the effect's cleanup: the interval is not cleared.
LeaveDashboardKeepsTimer ==
    /\ Mounted
    /\ \E r \in {"/login", "/signup"} : route' = r
    /\ timer' = timer
    /\ inflight' = Dead(inflight)
    /\ NoDashboard
    /\ last' = Event("leave", "none", 0, 0, 0, FALSE, FALSE)
    /\ UNCHANGED <<token, auth, backend>>

\* The user leaves the dashboard (a link, the back button).
LeaveDashboard ==
    /\ Mounted
    /\ \E r \in {"/login", "/signup"} : route' = r
    /\ timer' = FALSE
    /\ inflight' = Dead(inflight)
    /\ NoDashboard
    /\ last' = Event("leave", "none", 0, 0, 0, FALSE, FALSE)
    /\ UNCHANGED <<token, auth, backend>>

\* The interval fires.
Tick ==
    /\ timer
    /\ Len(inflight) < MaxInFlight
    /\ fetchProjectsBy(inflight, TRUE, "")
    /\ IF Fetches
          THEN UNCHANGED <<projects, loading, newProjectName, showNewProject, uploading>>
          ELSE TRUE
    /\ last' = Event("tick", "list", 0, 0, 0, Fetches, FALSE)
    /\ UNCHANGED <<token, auth, backend>>

\* ----------------------------------------------------- Dashboard handlers
\* "+ New Deal".
ClickNewDeal ==
    /\ Mounted
    /\ showNewProject' = TRUE
    /\ last' = Event("click", "newdeal", 0, 0, 0, FALSE, FALSE)
    /\ UNCHANGED <<token, route, timer, projects, loading, newProjectName,
                   uploading, inflight, auth, backend>>

\* The name input's onChange.
TypeName ==
    /\ Mounted
    /\ showNewProject
    /\ \E n \in {"", "Titan"} : n # newProjectName /\ newProjectName' = n
    /\ last' = Event("click", "type", 0, 0, 0, FALSE, FALSE)
    /\ UNCHANGED <<token, route, timer, projects, loading, showNewProject,
                   uploading, inflight, auth, backend>>

\* "Cancel" of the new-deal form.
CancelNew ==
    /\ Mounted
    /\ showNewProject
    /\ showNewProject' = FALSE
    /\ last' = Event("click", "cancel", 0, 0, 0, FALSE, FALSE)
    /\ UNCHANGED <<token, route, timer, projects, loading, newProjectName,
                   uploading, inflight, auth, backend>>

\* createProject without the test of line 51.
createProjectUnchecked ==
    /\ Mounted
    /\ showNewProject
    /\ Len(inflight) < MaxInFlight
    /\ inflight' = Append(inflight,
            Msg("create", 0, "", token # NoToken, TRUE, FALSE))
    /\ last' = Event("click", "create", 0, 0, 0, TRUE, FALSE)
    /\ UNCHANGED <<token, route, timer, projects, loading, newProjectName,
                   showNewProject, uploading, auth, backend>>

\* createProject up to its await ("Create Workspace").
createProject ==
    /\ Mounted
    /\ showNewProject
    /\ Len(inflight) < MaxInFlight
    /\ IF newProjectName = ""
          THEN /\ inflight' = inflight
               /\ last' = Event("click", "create", 0, 0, 0, FALSE, FALSE)
          ELSE /\ inflight' = Append(inflight,
                       Msg("create", 0, "", token # NoToken, TRUE, FALSE))
               /\ last' = Event("click", "create", 0, 0, 0, TRUE, FALSE)
    /\ UNCHANGED <<token, route, timer, projects, loading, newProjectName,
                   showNewProject, uploading, auth, backend>>

\* handleFileUpload up to its await: the file input's onChange; `picked` is
\* whether e.target.files is set.
handleFileUpload(pid) ==
    /\ Mounted
    /\ pid \in DOMAIN projects
    /\ "upload" \in Enabled(pid)
    /\ Len(inflight) < MaxInFlight
    /\ \E picked \in BOOLEAN :
          IF ~picked
             THEN /\ UNCHANGED <<uploading, inflight>>
                  /\ last' = Event("click", "upload", pid, 0, 0, FALSE, FALSE)
             ELSE /\ uploading' = uploading \cup {pid}
                  /\ inflight' = Append(inflight,
                          Msg("upload", pid, "", token # NoToken, TRUE, TRUE))
                  /\ last' = Event("click", "upload", pid, 0, 0, TRUE, FALSE)
    /\ UNCHANGED <<token, route, timer, projects, loading, newProjectName,
                   showNewProject, auth, backend>>

\* handleGenerate that shows the project as processing before the backend does.
handleGenerateOptimistic(pid) ==
    /\ Mounted
    /\ pid \in DOMAIN projects
    /\ Enabled(pid) \cap {"generate", "retry-generate"} # {}
    /\ Len(inflight) < MaxInFlight
    /\ inflight' = Append(inflight,
            Msg("generate", pid, "", token # NoToken, TRUE, FALSE))
    /\ projects' = [projects EXCEPT ![pid].status = "processing"]
    /\ last' = Event("click", "generate", pid, 0, 0, TRUE, FALSE)
    /\ UNCHANGED <<token, route, timer, loading, newProjectName,
                   showNewProject, uploading, auth, backend>>

\* handleGenerate up to its await: "Generate" or "Retry Generation".
handleGenerate(pid) ==
    /\ Mounted
    /\ pid \in DOMAIN projects
    /\ Enabled(pid) \cap {"generate", "retry-generate"} # {}
    /\ Len(inflight) < MaxInFlight
    /\ inflight' = Append(inflight,
            Msg("generate", pid, "", token # NoToken, TRUE, FALSE))
    /\ last' = Event("click", "generate", pid, 0, 0, TRUE, FALSE)
    /\ UNCHANGED <<token, route, timer, projects, loading, newProjectName,
                   showNewProject, uploading, auth, backend>>

\* handleDownload(type) up to its await.
handleDownload(pid, type) ==
    /\ Mounted
    /\ pid \in DOMAIN projects
    /\ \/ type = "ppt" /\ "download-teaser" \in Enabled(pid)
       \/ type = "citation_doc" /\ "download-citations" \in Enabled(pid)
    /\ Len(inflight) < MaxInFlight
    /\ inflight' = Append(inflight,
            Msg("download", pid, type, token # NoToken, FALSE, FALSE))
    /\ last' = Event("click", "download", pid, 0, 0, TRUE, FALSE)
    /\ UNCHANGED <<token, route, timer, projects, loading, newProjectName,
                   showNewProject, uploading, auth, backend>>

\* handleDelete that does not wait for window.confirm.
handleDeleteUnconfirmed(pid) ==
    /\ Mounted
    /\ pid \in DOMAIN projects
    /\ DeleteOffered(projects[pid])
    /\ Len(inflight) < MaxInFlight
    /\ \E ok \in BOOLEAN :
          /\ inflight' = Append(inflight,
                  Msg("delete", pid, "", token # NoToken, TRUE, FALSE))
          /\ last' = [Event("click", "delete", pid, 0, 0, TRUE, FALSE) EXCEPT
                         !.answer = ok]
    /\ UNCHANGED <<token, route, timer, projects, loading, newProjectName,
                   showNewProject, uploading, auth, backend>>

\* handleDelete up to its await; `ok` is the answer to window.confirm.
handleDelete(pid) ==
    /\ Mounted
    /\ pid \in DOMAIN projects
    /\ DeleteOffered(projects[pid])
    /\ Len(inflight) < MaxInFlight
    /\ \E ok \in BOOLEAN :
          IF ~ok
             THEN /\ inflight' = inflight
                  /\ last' = Event("click", "delete", pid, 0, 0, FALSE, FALSE)
             ELSE /\ inflight' = Append(inflight,
                          Msg("delete", pid, "", token # NoToken, TRUE, FALSE))
                  /\ last' = [Event("click", "delete", pid, 0, 0, TRUE, FALSE) EXCEPT
                                 !.answer = TRUE]
    /\ UNCHANGED <<token, route, timer, projects, loading, newProjectName,
                   showNewProject, uploading, auth, backend>>

\* ------------------------------------------------- after the await settles
\* What the promise of request m can settle with: the backend's answer once it
\* has one, or at any time a transport error (code 0, no err.response).
Outcomes(m) == IF m.phase = "sent" THEN {0} ELSE {m.code, 0}

\* ApplyList that drops the answer to a request older than one already applied.
ApplyListUnlessStale(q, i, m) ==
    IF m.dash /\ ~m.stale
       THEN /\ projects' = m.data
            /\ loading' = FALSE
            /\ uploading' = uploading \cap DOMAIN m.data
            /\ inflight' =
                  [j \in 1..Len(q) |->
                     [q[j] EXCEPT
                        !.card = @ /\ q[j].pid \in DOMAIN m.data,
                        !.stale = @ \/ (q[j].op = "list" /\ j < i)]]
            /\ UNCHANGED <<token, route, timer, newProjectName, showNewProject>>
       ELSE /\ inflight' = q
            /\ UNCHANGED client

\* ApplyList that merges the payload into the cache, keeping what it does not
\* list.
ApplyListMerging(q, i, m) ==
    IF m.dash
       THEN /\ projects' = m.data @@ projects
            /\ loading' = FALSE
            /\ UNCHANGED uploading
            /\ inflight' =
                  [j \in 1..Len(q) |->
                     [q[j] EXCEPT
                        !.stale = @ \/ (q[j].op = "list" /\ j < i)]]
            /\ UNCHANGED <<token, route, timer, newProjectName, showNewProject>>
       ELSE /\ inflight' = q
            /\ UNCHANGED client

\* ApplyList that, for a project the cache already lists, appends the files of
\* the payload to the ones the cache holds.
ApplyListAppendingFiles(q, i, m) ==
    IF m.dash
       THEN /\ projects' =
                  [pid \in DOMAIN m.data |->
                     IF pid \in DOMAIN projects
                        THEN [m.data[pid] EXCEPT !.files = @ + projects[pid].files]
                        ELSE m.data[pid]]
            /\ loading' = FALSE
            /\ uploading' = uploading \cap DOMAIN m.data
            /\ inflight' =
                  [j \in 1..Len(q) |->
                     [q[j] EXCEPT
                        !.card = @ /\ q[j].pid \in DOMAIN m.data,
                        !.stale = @ \/ (q[j].op = "list" /\ j < i)]]
            /\ UNCHANGED <<token, route, timer, newProjectName, showNewProject>>
       ELSE /\ inflight' = q
            /\ UNCHANGED client

\* ApplyList that fills the cache on the first load only.
ApplyListOnce(q, i, m) ==
    IF m.dash
       THEN /\ projects' = (IF loading THEN m.data ELSE projects)
            /\ loading' = FALSE
            /\ uploading' = uploading \cap DOMAIN projects'
            /\ inflight' =
                  [j \in 1..Len(q) |->
                     [q[j] EXCEPT
                        !.card = @ /\ q[j].pid \in DOMAIN projects',
                        !.stale = @ \/ (q[j].op = "list" /\ j < i)]]
            /\ UNCHANGED <<token, route, timer, newProjectName, showNewProject>>
       ELSE /\ inflight' = q
            /\ UNCHANGED client

\* try-branch after the await, lines 37-39: setProjects(res.data) replaces the
\* cache of a mounted Dashboard; the cards of the projects no longer listed
\* unmount, and the list requests sent before this one are from now on out of
\* date. On an unmounted Dashboard the setters do nothing.
ApplyList(q, i, m) ==
    IF m.dash
       THEN /\ projects' = m.data
            /\ loading' = FALSE
            /\ uploading' = uploading \cap DOMAIN m.data
            /\ inflight' =
                  [j \in 1..Len(q) |->
                     [q[j] EXCEPT
                        !.card = @ /\ q[j].pid \in DOMAIN m.data,
                        !.stale = @ \/ (q[j].op = "list" /\ j < i)]]
            /\ UNCHANGED <<token, route, timer, newProjectName, showNewProject>>
       ELSE /\ inflight' = q
            /\ UNCHANGED client

\* Unauthorized without localStorage.removeItem.
UnauthorizedKeepsToken(q) ==
    /\ token' = token
    /\ NavigateLogin(q)

\* catch-branch, lines 42-46: a 401.
Unauthorized(q) ==
    /\ token' = NoToken
    /\ NavigateLogin(q)

\* FetchFailed that empties the cache.
FetchFailedClearsCache(q) ==
    /\ inflight' = q
    /\ projects' = EmptyList
    /\ UNCHANGED <<token, route, timer, loading, newProjectName, showNewProject,
                   uploading>>

\* FetchFailed that removes the token on any failure.
FetchFailedRemovesToken(q) ==
    /\ inflight' = q
    /\ token' = NoToken
    /\ UNCHANGED <<route, timer, projects, loading, newProjectName, showNewProject,
                   uploading>>

\* catch-branch, line 41: any other failure is logged.
FetchFailed(q) ==
    /\ inflight' = q
    /\ UNCHANGED client

\* fetchProjects after its await: the answer to request i settles with code c.
fetchProjectsDone(i) ==
    /\ i \in 1..Len(inflight)
    /\ inflight[i].op = "list"
    /\ LET m == inflight[i]
           q == RemoveAt(inflight, i)
           back == \E pid \in DOMAIN projects \cap DOMAIN m.data :
                      /\ projects[pid].status = "completed"
                      /\ m.data[pid].status # "completed"
       IN \E c \in Outcomes(m) :
            /\ IF c = 200 THEN ApplyList(q, i, m)
               ELSE IF c = 401 THEN Unauthorized(q)
               ELSE FetchFailed(q)
            /\ last' = [Event("resp", "list", 0, c, i, FALSE, FALSE) EXCEPT
                           !.late = c = 200 /\ m.dash /\ m.stale,
                           !.back = c = 200 /\ m.dash /\ back]
    /\ UNCHANGED <<auth, backend>>

\* createProjectDone without the call of fetchProjects of line 60.
createProjectDoneNoRefresh(i) ==
    /\ i \in 1..Len(inflight)
    /\ inflight[i].op = "create"
    /\ LET m == inflight[i]
           q == RemoveAt(inflight, i)
       IN \E c \in Outcomes(m) :
            /\ inflight' = q
            /\ IF c = 200 /\ m.dash
                  THEN /\ newProjectName' = ""
                       /\ showNewProject' = FALSE
                  ELSE UNCHANGED <<newProjectName, showNewProject>>
            /\ last' = Event("resp", "create", 0, c, i, FALSE, c # 200)
    /\ UNCHANGED <<token, route, timer, projects, loading, uploading, auth, backend>>

\* createProject after its await.
createProjectDone(i) ==
    /\ i \in 1..Len(inflight)
    /\ inflight[i].op = "create"
    /\ LET m == inflight[i]
           q == RemoveAt(inflight, i)
       IN \E c \in Outcomes(m) :
            IF c = 200
               THEN /\ fetchProjects(q, m.dash)
                    /\ IF Fetches
                          THEN /\ IF m.dash
                                     THEN /\ newProjectName' = ""
                                          /\ showNewProject' = FALSE
                                     ELSE UNCHANGED <<newProjectName, showNewProject>>
                               /\ UNCHANGED <<projects, loading, uploading>>
                          ELSE TRUE
                    /\ last' = Event("resp", "create", 0, c, i, Fetches, FALSE)
               ELSE /\ inflight' = q
                    /\ last' = Event("resp", "create", 0, c, i, FALSE, TRUE)
                    /\ UNCHANGED <<route, timer, projects, loading, uploading,
                                   newProjectName, showNewProject>>
    /\ UNCHANGED <<token, auth, backend>>

\* handleFileUploadDone with refresh() in its finally.
handleFileUploadDoneRefreshAlways(i) ==
    /\ i \in 1..Len(inflight)
    /\ inflight[i].op = "upload"
    /\ LET m == inflight[i]
           q == RemoveAt(inflight, i)
           done == IF m.card THEN uploading \ {m.pid} ELSE uploading
       IN \E c \in Outcomes(m) :
            /\ fetchProjects(q, m.dash)
            /\ IF Fetches
                  THEN /\ uploading' = done
                       /\ UNCHANGED <<projects, loading, newProjectName,
                                      showNewProject>>
                  ELSE TRUE
            /\ last' = Event("resp", "upload", m.pid, c, i, Fetches, c # 200)
    /\ UNCHANGED <<token, auth, backend>>

\* handleFileUploadDone with setUploading(false) after refresh() in the try
\* block instead of in a finally.
handleFileUploadDoneNoFinally(i) ==
    /\ i \in 1..Len(inflight)
    /\ inflight[i].op = "upload"
    /\ LET m == inflight[i]
           q == RemoveAt(inflight, i)
           done == IF m.card THEN uploading \ {m.pid} ELSE uploading
       IN \E c \in Outcomes(m) :
            IF c = 200
               THEN /\ fetchProjects(q, m.dash)
                    /\ IF Fetches
                          THEN /\ uploading' = done
                               /\ UNCHANGED <<projects, loading, newProjectName,
                                              showNewProject>>
                          ELSE TRUE
                    /\ last' = Event("resp", "upload", m.pid, c, i, Fetches, FALSE)
               ELSE /\ inflight' = q
                    /\ last' = Event("resp", "upload", m.pid, c, i, FALSE, TRUE)
                    /\ UNCHANGED <<route, timer, projects, loading, newProjectName,
                                   showNewProject, uploading>>
    /\ UNCHANGED <<token, auth, backend>>

\* handleFileUpload after its await, with its finally.
handleFileUploadDone(i) ==
    /\ i \in 1..Len(inflight)
    /\ inflight[i].op = "upload"
    /\ LET m == inflight[i]
           q == RemoveAt(inflight, i)
           done == IF m.card THEN uploading \ {m.pid} ELSE uploading
       IN \E c \in Outcomes(m) :
            IF c = 200
               THEN /\ fetchProjects(q, m.dash)
                    /\ IF Fetches
                          THEN /\ uploading' = done
                               /\ UNCHANGED <<projects, loading, newProjectName,
                                              showNewProject>>
                          ELSE TRUE
                    /\ last' = Event("resp", "upload", m.pid, c, i, Fetches, FALSE)
               ELSE /\ inflight' = q
                    /\ uploading' = done
                    /\ last' = Event("resp", "upload", m.pid, c, i, FALSE, TRUE)
                    /\ UNCHANGED <<route, timer, projects, loading, newProjectName,
                                   showNewProject>>
    /\ UNCHANGED <<token, auth, backend>>

\* handleGenerateDone that sends the request again when it has failed.
handleGenerateDoneRetrying(i) ==
    /\ i \in 1..Len(inflight)
    /\ inflight[i].op = "generate"
    /\ LET m == inflight[i]
           q == RemoveAt(inflight, i)
       IN \E c \in Outcomes(m) :
            IF c = 200
               THEN /\ fetchProjects(q, m.dash)
                    /\ IF Fetches
                          THEN UNCHANGED <<projects, loading, newProjectName,
                                           showNewProject, uploading>>
                          ELSE TRUE
                    /\ last' = Event("resp", "generate", m.pid, c, i, Fetches, FALSE)
               ELSE /\ inflight' = Append(q,
                            Msg("generate", m.pid, "", token # NoToken, m.dash, FALSE))
                    /\ last' = Event("resp", "generate", m.pid, c, i, TRUE, TRUE)
                    /\ UNCHANGED <<route, timer, projects, loading, newProjectName,
                                   showNewProject, uploading>>
    /\ UNCHANGED <<token, auth, backend>>

\* handleGenerate after its await.
handleGenerateDone(i) ==
    /\ i \in 1..Len(inflight)
    /\ inflight[i].op = "generate"
    /\ LET m == inflight[i]
           q == RemoveAt(inflight, i)
       IN \E c \in Outcomes(m) :
            IF c = 200
               THEN /\ fetchProjects(q, m.dash)
                    /\ IF Fetches
                          THEN UNCHANGED <<projects, loading, newProjectName,
                                           showNewProject, uploading>>
                          ELSE TRUE
                    /\ last' = Event("resp", "generate", m.pid, c, i, Fetches, FALSE)
               ELSE /\ inflight' = q
                    /\ last' = Event("resp", "generate", m.pid, c, i, FALSE, TRUE)
                    /\ UNCHANGED <<route, timer, projects, loading, newProjectName,
                                   showNewProject, uploading>>
    /\ UNCHANGED <<token, auth, backend>>

\* DownloadName that saves every artifact as the teaser.
DownloadNameAlwaysTeaser(type) == <<"Teaser", "pptx">>

\* Lines 205-206: the name the blob is saved under, after the company name and
\* the underscore: <<suffix, extension>>.
DownloadName(type) ==
    LET ext == IF type = "ppt" THEN "pptx" ELSE "pdf"
    IN <<IF type = "ppt" THEN "Teaser" ELSE "Citations", ext>>

\* handleDownloadDone that calls refresh() after saving the blob.
handleDownloadDoneRefreshing(i) ==
    /\ i \in 1..Len(inflight)
    /\ inflight[i].op = "download"
    /\ LET m == inflight[i]
           q == RemoveAt(inflight, i)
       IN \E c \in Outcomes(m) :
            IF c = 200
               THEN /\ fetchProjects(q, m.dash)
                    /\ IF Fetches
                          THEN UNCHANGED <<projects, loading, newProjectName,
                                           showNewProject, uploading>>
                          ELSE TRUE
                    /\ last' = [Event("resp", "download", m.pid, c, i, Fetches, FALSE)
                                   EXCEPT !.file = DownloadName(m.kind)]
               ELSE /\ inflight' = q
                    /\ last' = Event("resp", "download", m.pid, c, i, FALSE, TRUE)
                    /\ UNCHANGED <<route, timer, projects, loading, newProjectName,
                                   showNewProject, uploading>>
    /\ UNCHANGED <<token, auth, backend>>

\* handleDownload after its await: the blob is saved through a temporary link.
handleDownloadDone(i) ==
    /\ i \in 1..Len(inflight)
    /\ inflight[i].op = "download"
    /\ LET m == inflight[i]
       IN \E c \in Outcomes(m) :
            last' = [Event("resp", "download", m.pid, c, i, FALSE, c # 200) EXCEPT
                        !.file = IF c = 200 THEN DownloadName(m.kind) ELSE << >>]
    /\ inflight' = RemoveAt(inflight, i)
    /\ UNCHANGED <<token, route, timer, projects, loading, newProjectName,
                   showNewProject, uploading, auth, backend>>

\* handleDelete after its await.
handleDeleteDone(i) ==
    /\ i \in 1..Len(inflight)
    /\ inflight[i].op = "delete"
    /\ LET m == inflight[i]
           q == RemoveAt(inflight, i)
       IN \E c \in Outcomes(m) :
            IF c = 200
               THEN /\ fetchProjects(q, m.dash)
                    /\ IF Fetches
                          THEN UNCHANGED <<projects, loading, newProjectName,
                                           showNewProject, uploading>>
                          ELSE TRUE
                    /\ last' = Event("resp", "delete", m.pid, c, i, Fetches, FALSE)
               ELSE /\ inflight' = q
                    /\ last' = Event("resp", "delete", m.pid, c, i, FALSE, TRUE)
                    /\ UNCHANGED <<route, timer, projects, loading, newProjectName,
                                   showNewProject, uploading>>
    /\ UNCHANGED <<token, auth, backend>>

\* -------------------------------------------------------------- Auth.jsx
\* The links between the login and the signup form.
SwitchForm ==
    /\ route \in {"/login", "/signup"}
    /\ route' = IF route = "/login" THEN "/signup" ELSE "/login"
    /\ last' = Event("click", "link", 0, 0, 0, FALSE, FALSE)
    /\ UNCHANGED <<token, timer, projects, loading, newProjectName, showNewProject,
                   uploading, inflight, auth, backend>>

\* handleSubmit up to its await; the submit button is disabled while loading.
handleSubmit ==
    /\ route \in {"/login", "/signup"}
    /\ authReq = "none"
    /\ authReq' = IF route = "/login" THEN "login" ELSE "signup"
    /\ authError' = ""
    /\ last' = Event("click", authReq', 0, 0, 0, TRUE, FALSE)
    /\ UNCHANGED <<client, inflight, backend>>

\* handleSubmitDone without the test `!isLogin` of line 36: an answer without
\* a token goes to the login page from either form.
handleSubmitDoneNoTokenToLogin ==
    /\ authReq # "none"
    /\ authReq' = "none"
    /\ \/ /\ Len(inflight) < MaxInFlight
          /\ token' = Tok
          /\ sessionValid' = TRUE
          /\ IF Mounted
                THEN UNCHANGED <<route, timer, projects, loading, newProjectName,
                                 showNewProject, uploading, inflight>>
                ELSE MountDashboard(Tok)
          /\ authError' = ""
          /\ last' = Event("resp", authReq, 0, 200, 0, FALSE, FALSE)
          /\ UNCHANGED <<srv, nextId>>
       \/ /\ NavigateLogin(inflight)
          /\ last' = Event("resp", authReq, 0, 201, 0, FALSE, FALSE)
          /\ UNCHANGED <<token, authError, backend>>
       \/ /\ authError' = IF Mounted THEN "" ELSE "An error occurred"
          /\ last' = Event("resp", authReq, 0, 400, 0, FALSE, FALSE)
          /\ UNCHANGED <<client, inflight, backend>>

\* handleSubmit after its await. The backend answers with an access_token
\* (which it then accepts), without one, or with an error.
handleSubmitDone ==
    /\ authReq # "none"
    /\ authReq' = "none"
    /\ \/ /\ Len(inflight) < MaxInFlight
          /\ token' = Tok
          /\ sessionValid' = TRUE
          /\ IF Mounted
                THEN UNCHANGED <<route, timer, projects, loading, newProjectName,
                                 showNewProject, uploading, inflight>>
                ELSE MountDashboard(Tok)
          /\ authError' = ""
          /\ last' = Event("resp", authReq, 0, 200, 0, FALSE, FALSE)
          /\ UNCHANGED <<srv, nextId>>
       \/ /\ IF authReq = "signup"
                THEN NavigateLogin(inflight)
                ELSE UNCHANGED <<route, timer, inflight, projects, loading,
                                 newProjectName, showNewProject, uploading>>
          /\ last' = Event("resp", authReq, 0, 201, 0, FALSE, FALSE)
          /\ UNCHANGED <<token, authError, backend>>
       \/ /\ authError' = IF Mounted THEN "" ELSE "An error occurred"
          /\ last' = Event("resp", authReq, 0, 400, 0, FALSE, FALSE)
          /\ UNCHANGED <<client, inflight, backend>>

\* --------------------------------------------------------------- backend
Answer(i, c, d) ==
    inflight' = [inflight EXCEPT ![i] =
                    [@ EXCEPT !.phase = "replied", !.code = c, !.data = d]]

\* The backend's answer to request i, with its effect on the projects.
ServerHandle(i) ==
    /\ i \in 1..Len(inflight)
    /\ inflight[i].phase = "sent"
    /\ LET m == inflight[i]
       IN IF ~m.tok \/ ~sessionValid
             THEN Answer(i, 401, EmptyList) /\ UNCHANGED <<srv, nextId>>
          ELSE IF m.op = "list"
             THEN Answer(i, 200, srv) /\ UNCHANGED <<srv, nextId>>
          ELSE IF m.op = "create"
             THEN /\ nextId <= MaxProjects
                  /\ \E has \in BOOLEAN :
                        srv' = (nextId :> Project("pending", has, 0)) @@ srv
                  /\ nextId' = nextId + 1
                  /\ Answer(i, 200, EmptyList)
          ELSE IF m.pid \notin DOMAIN srv
             THEN Answer(i, 400, EmptyList) /\ UNCHANGED <<srv, nextId>>
          ELSE IF m.op = "upload"
             THEN IF srv[m.pid].status # "pending"
                     THEN Answer(i, 400, EmptyList) /\ UNCHANGED <<srv, nextId>>
                     ELSE /\ srv[m.pid].files < MaxFiles
                          /\ srv' = [srv EXCEPT ![m.pid] =
                                Project("pending", TRUE, @.files + 1)]
                          /\ Answer(i, 200, EmptyList)
                          /\ UNCHANGED nextId
          ELSE IF m.op = "generate"
             THEN IF \/ srv[m.pid].status = "failed"
                     \/ srv[m.pid].status = "pending" /\ ~NoFiles(srv[m.pid])
                     THEN /\ srv' = [srv EXCEPT ![m.pid].status = "processing"]
                          /\ Answer(i, 200, EmptyList)
                          /\ UNCHANGED nextId
                     ELSE Answer(i, 400, EmptyList) /\ UNCHANGED <<srv, nextId>>
          ELSE IF m.op = "download"
             THEN /\ Answer(i, IF srv[m.pid].status = "completed" THEN 200 ELSE 400,
                            EmptyList)
                  /\ UNCHANGED <<srv, nextId>>
          ELSE /\ m.op = "delete"
               /\ srv' = [p \in DOMAIN srv \ {m.pid} |-> srv[p]]
               /\ Answer(i, 200, EmptyList)
               /\ UNCHANGED nextId
    /\ last' = Event("env", "none", 0, 0, 0, FALSE, FALSE)
    /\ UNCHANGED <<client, auth, sessionValid>>

\* The backend fails on request i (a 5xx) and changes nothing.
ServerError(i) ==
    /\ i \in 1..Len(inflight)
    /\ inflight[i].phase = "sent"
    /\ Answer(i, 500, EmptyList)
    /\ last' = Event("env", "none", 0, 0, 0, FALSE, FALSE)
    /\ UNCHANGED <<client, auth, backend>>

\* The generation job of a project ends.
ServerFinish(pid) ==
    /\ pid \in DOMAIN srv
    /\ srv[pid].status = "processing"
    /\ \E st \in {"completed", "failed"} :
          srv' = [srv EXCEPT ![pid].status = st]
    /\ last' = Event("env", "none", 0, 0, 0, FALSE, FALSE)
    /\ UNCHANGED <<client, inflight, auth, nextId, sessionValid>>

\* The backend stops accepting the token it issued.
SessionExpire ==
    /\ sessionValid
    /\ sessionValid' = FALSE
    /\ last' = Event("env", "none", 0, 0, 0, FALSE, FALSE)
    /\ UNCHANGED <<client, inflight, auth, srv, nextId>>

\* ---------------------------------------------------------- specification
Next ==
    \/ OpenDashboard /\ UNCHANGED <<theming, stage>>
    \/ LeaveDashboard /\ UNCHANGED <<theming, stage>>
    \/ Tick /\ UNCHANGED <<theming, stage>>
    \/ ClickNewDeal /\ UNCHANGED <<theming, stage>>
    \/ TypeName /\ UNCHANGED <<theming, stage>>
    \/ CancelNew /\ UNCHANGED <<theming, stage>>
    \/ createProject /\ UNCHANGED <<theming, stage>>
    \/ \E pid \in ProjectIds : handleFileUpload(pid) /\ UNCHANGED <<theming, stage>>
    \/ \E pid \in ProjectIds : handleGenerate(pid) /\ UNCHANGED <<theming, stage>>
    \/ \E pid \in ProjectIds, type \in {"ppt", "citation_doc"} : handleDownload(pid, type) /\ UNCHANGED <<theming, stage>>
    \/ \E pid \in ProjectIds : handleDelete(pid) /\ UNCHANGED <<theming, stage>>
    \/ \E i \in 1..MaxInFlight : fetchProjectsDone(i) /\ UNCHANGED <<theming, stage>>
    \/ \E i \in 1..MaxInFlight : createProjectDone(i) /\ UNCHANGED <<theming, stage>>
    \/ \E i \in 1..MaxInFlight : handleFileUploadDone(i) /\ UNCHANGED <<theming, stage>>
    \/ \E i \in 1..MaxInFlight : handleGenerateDone(i) /\ UNCHANGED <<theming, stage>>
    \/ \E i \in 1..MaxInFlight : handleDownloadDone(i) /\ UNCHANGED <<theming, stage>>
    \/ \E i \in 1..MaxInFlight : handleDeleteDone(i) /\ UNCHANGED <<theming, stage>>
    \/ SwitchForm /\ UNCHANGED <<theming, stage>>
    \/ handleSubmit /\ UNCHANGED <<theming, stage>>
    \/ handleSubmitDone /\ UNCHANGED <<theming, stage>>
    \/ \E i \in 1..MaxInFlight : ServerHandle(i) /\ UNCHANGED <<theming, stage>>
    \/ \E i \in 1..MaxInFlight : ServerError(i) /\ UNCHANGED <<theming, stage>>
    \/ \E pid \in ProjectIds : ServerFinish(pid) /\ UNCHANGED <<theming, stage>>
    \/ SessionExpire /\ UNCHANGED <<theming, stage>>

Spec == Init /\ [][Next]_vars

\* ------------------------------------- refreshes over an unchanging backend
\* The lists the backend can hold for one project: none, or project 1 as
\* created (with or without a files list), with its file, and in each status
\* that generation gives it.
ServerLists ==
    {EmptyList}
    \cup {1 :> Project("pending", has, 0) : has \in BOOLEAN}
    \cup {1 :> Project(st, TRUE, 1) : st \in Statuses}

\* The user has just logged in: the Dashboard has mounted and sent its first
\* list request; the backend holds any of its lists.
RefreshInit ==
    /\ token = Tok
    /\ route = "/dashboard"
    /\ timer = TRUE
    /\ projects = EmptyList
    /\ loading = TRUE
    /\ newProjectName = ""
    /\ showNewProject = FALSE
    /\ uploading = {}
    /\ inflight = <<Msg("list", 0, "", TRUE, TRUE, FALSE)>>
    /\ authReq = "none"
    /\ authError = ""
    /\ srv \in ServerLists
    /\ nextId = (IF srv = EmptyList THEN 1 ELSE 2)
    /\ sessionValid = TRUE
    /\ ThemeLoaded(NoTheme)
    /\ stage = 0
    /\ last = Event("resp", "login", 0, 200, 0, FALSE, FALSE)

\* Only the interval, the backend's answers and fetchProjects' continuation
\* run: nothing changes the backend's projects and the session stays valid.
RefreshNext ==
    \/ Tick /\ UNCHANGED <<theming, stage>>
    \/ \E i \in 1..MaxInFlight : fetchProjectsDone(i) /\ UNCHANGED <<theming, stage>>
    \/ \E i \in 1..MaxInFlight : ServerHandle(i) /\ UNCHANGED <<theming, stage>>
    \/ \E i \in 1..MaxInFlight : ServerError(i) /\ UNCHANGED <<theming, stage>>

RefreshSpec == RefreshInit /\ [][RefreshNext]_vars

\* ------------------------------------- polling while a generation job ends
\* The interval fires on the mounted Dashboard.
Polls == Tick /\ UNCHANGED <<theming, stage>>

\* The backend answers a request, with its data or with a 5xx.
Answers ==
    \E i \in 1..MaxInFlight : (ServerHandle(i) \/ ServerError(i)) /\ UNCHANGED <<theming, stage>>

\* The promise of a list request settles.
Settles == \E i \in 1..MaxInFlight : fetchProjectsDone(i) /\ UNCHANGED <<theming, stage>>

\* The user stays on the Dashboard after logging in and does nothing; the
\* backend's job may end once while list requests are under way, after which
\* the backend's projects change no more.
ConvergeNext ==
    \/ Polls
    \/ Settles
    \/ Answers
    \/ \E pid \in ProjectIds : ServerFinish(pid) /\ UNCHANGED <<theming, stage>>

\* setInterval keeps firing while the Dashboard is mounted, the backend answers
\* every request it receives, and every promise settles.
ConvergeSpec ==
    /\ RefreshInit
    /\ [][ConvergeNext]_vars
    /\ WF_vars(Polls)
    /\ WF_vars(Answers)
    /\ WF_vars(Settles)

\* ------------------------------------------------------ the theme switcher
\* The effect that forgets to remove the attribute when the theme goes back
\* to 'default'.
ThemeEffectNoRemove(t) ==
    /\ dataTheme' = (IF t = "default" THEN dataTheme ELSE t)
    /\ storedTheme' = t

\* useEffect(..., [theme]) after a render with theme t: the attribute is
\* removed or set, then the theme is stored.
ThemeEffect(t) ==
    /\ dataTheme' = AttrOf(t)
    /\ storedTheme' = t

\* The palette button: `setIsOpen(!isOpen)`.
ToggleSwitcher ==
    /\ isOpen' = ~isOpen
    /\ UNCHANGED <<theme, storedTheme, dataTheme>>
    /\ UNCHANGED <<client, auth, backend, inflight, stage>>
    /\ last' = Event("click", "palette", 0, 0, 0, FALSE, FALSE)

\* The backdrop behind the open menu: `setIsOpen(false)`.
CloseSwitcher ==
    /\ isOpen
    /\ isOpen' = FALSE
    /\ UNCHANGED <<theme, storedTheme, dataTheme>>
    /\ UNCHANGED <<client, auth, backend, inflight, stage>>
    /\ last' = Event("click", "backdrop", 0, 0, 0, FALSE, FALSE)

\* A theme button of the open menu: `setTheme(t.id); setIsOpen(false)`.  The
\* effect depends on [theme], so it runs only when the state has changed.
SelectTheme(t) ==
    /\ isOpen
    /\ theme' = t
    /\ isOpen' = FALSE
    /\ IF t # theme
          THEN ThemeEffect(t)
          ELSE UNCHANGED <<storedTheme, dataTheme>>
    /\ UNCHANGED <<client, auth, backend, inflight, stage>>
    /\ last' = [Event("click", "theme", 0, 0, 0, FALSE, FALSE) EXCEPT !.was = theme]

\* The page is loaded again: a new document without the attribute, in which
\* ThemeProvider mounts, reads the storage and runs its effect.
ReloadPage ==
    /\ theme' = ReadTheme(storedTheme)
    /\ isOpen' = FALSE
    /\ ThemeEffect(ReadTheme(storedTheme))
    /\ UNCHANGED <<client, auth, backend, inflight, stage>>
    /\ last' = [Event("mount", "theme", 0, 0, 0, FALSE, FALSE) EXCEPT !.was = storedTheme]

\* Another tab of the application stores the theme picked there; the storage
\* is shared, this tab's state is not.
OtherTabStores(t) ==
    /\ storedTheme' = t
    /\ UNCHANGED <<theme, dataTheme, isOpen>>
    /\ UNCHANGED <<client, auth, backend, inflight, stage>>
    /\ last' = Event("env", "storage", 0, 0, 0, FALSE, FALSE)

\* The user clears the site's storage before logging in.
StorageCleared ==
    /\ storedTheme' = NoTheme
    /\ UNCHANGED <<theme, dataTheme, isOpen>>
    /\ UNCHANGED <<client, auth, backend, inflight, stage>>
    /\ last' = Event("env", "storage", 0, 0, 0, FALSE, FALSE)

\* The login page of a browser whose storage holds no token and any theme an
\* earlier visit stored, or none.
ThemeInit ==
    /\ token = NoToken
    /\ route = "/login"
    /\ timer = FALSE
    /\ projects = EmptyList
    /\ loading = TRUE
    /\ newProjectName = ""
    /\ showNewProject = FALSE
    /\ uploading = {}
    /\ inflight = << >>
    /\ authReq = "none"
    /\ authError = ""
    /\ srv = EmptyList
    /\ nextId = 1
    /\ sessionValid = FALSE
    /\ stage = 0
    /\ \E s \in ThemeIds \cup {NoTheme} :
          /\ ThemeLoaded(s)
          /\ last = [Event("mount", "theme", 0, 0, 0, FALSE, FALSE) EXCEPT !.was = s]

ThemeNext ==
    \/ ToggleSwitcher
    \/ CloseSwitcher
    \/ \E t \in ThemeIds : SelectTheme(t)
    \/ ReloadPage
    \/ \E t \in ThemeIds : OtherTabStores(t)
    \/ StorageCleared

ThemeSpec == ThemeInit /\ [][ThemeNext]_vars

\* ------------------------------------------------------------- properties
MutatingOps == {"create", "upload", "generate", "download", "delete"}

\* The step was fetchProjects settling with code c.
ListSettled(c) == last'.ev = "resp" /\ last'.op = "list" /\ last'.code = c

\* The request the step settled, and what the step left of `inflight` when it
\* sent nothing.
Settled == inflight[last'.idx]
Rest == RemoveAt(inflight, last'.idx)

\* The step sent a request for `op` (requests are appended).
Sends(op) ==
    /\ Len(inflight') = Len(inflight) + 1
    /\ inflight'[Len(inflight')].op = op

\* The table of section 8: the actions by status and by whether files is empty.
TableActions(p) ==
    IF p.status = "pending"
       THEN IF NoFiles(p) THEN {"upload"} ELSE {"upload", "generate"}
    ELSE IF p.status = "processing" THEN {}
    ELSE IF p.status = "completed" THEN {"download-teaser", "download-citations"}
    ELSE {"retry-generate"}

\* C1, as stated: for every project of the cache the action bar enables exactly
\* the actions the table gives for its status and for whether files is empty.
C1_TableOnly ==
    \A pid \in DOMAIN projects :
        Mounted => Enabled(pid) = TableActions(projects[pid])

\* C1, amended: the action bar enables the actions of the table, less upload
\* while the card's own upload is awaiting its answer; so the set is a function
\* of the status, of whether files is empty and of the card's uploading flag.
C1_TableLessUploading ==
    \A pid \in DOMAIN projects :
        Mounted => Enabled(pid) =
            TableActions(projects[pid])
                \ (IF pid \in uploading THEN {"upload"} ELSE {})

\* C1 witness: a pending project with a file whose card is uploading: generate is
\* enabled, upload is not.
C1_Witness ==
    \E pid \in DOMAIN projects :
        /\ Mounted
        /\ pid \in uploading
        /\ projects[pid].status = "pending"
        /\ ~NoFiles(projects[pid])
        /\ Enabled(pid) = {"generate"}

\* C2: when the answer to a list request settles on a mounted Dashboard after
\* the answer to a later list request has been applied, it still becomes the
\* cache: the answer that settles last wins, not the request sent last.
C2_LastResolvedWins ==
    [][ListSettled(200) /\ Settled.dash /\ Settled.stale
          => projects' = Settled.data]_vars

\* C2 witness: the answer to the older of two overlapping refreshes settled last
\* and put a project back from completed to processing.
C2_Witness ==
    /\ last.ev = "resp" /\ last.op = "list" /\ last.code = 200
    /\ last.late /\ last.back
    /\ \E pid \in DOMAIN projects \cap DOMAIN srv :
          projects[pid].status = "processing" /\ srv[pid].status = "completed"

\* C3, as stated: a 401 to any authenticated call removes the token and moves
\* the UI to the login page.
C3_Any401ClearsToken ==
    [][last'.ev = "resp" /\ last'.op \in MutatingOps \cup {"list"} /\ last'.code = 401
        => token' = NoToken /\ route' = "/login"]_vars

\* C4: fetchProjects settling with a 401 removes the token, goes to the login
\* page, leaves the cache as it was and sends no request again.
C4_Refresh401 ==
    [][ListSettled(401) =>
          /\ token' = NoToken
          /\ route' = "/login"
          /\ ~timer'
          /\ projects' = projects
          /\ inflight' = Dead(Rest)]_vars

\* C4 witness: a list request of the mounted Dashboard has just settled with 401.
C4_Witness ==
    /\ last.ev = "resp" /\ last.op = "list" /\ last.code = 401
    /\ projects # EmptyList
    /\ token = NoToken /\ route = "/login"

\* C5: fetchProjects settling with a failure other than a 401 (a 5xx, no answer)
\* leaves the cache, the token and the route as they were, sends nothing and
\* leaves the interval as it was, running if the Dashboard is mounted.
C5_RefreshFailureKeepsState ==
    [][last'.ev = "resp" /\ last'.op = "list" /\ last'.code \notin {200, 401} =>
          /\ projects' = projects
          /\ token' = token
          /\ route' = route
          /\ timer' = timer
          /\ timer' = Mounted'
          /\ inflight' = Rest]_vars

\* C5 witness: a list request of the mounted Dashboard settled with a 500 over a
\* cache that is not empty, and the interval is live.
C5_Witness ==
    /\ last.ev = "resp" /\ last.op = "list" /\ last.code = 500
    /\ Mounted /\ timer
    /\ projects # EmptyList

\* C6: the cache is written only by a Dashboard that mounts, which starts it
\* empty, and by a successful list answer on a mounted Dashboard, which leaves
\* exactly the projects of its payload, each as the payload has it; and a
\* payload is the backend's whole list at the time of the answer.
C6_WholesaleReplace ==
    [][/\ projects' # projects =>
             \/ projects' = EmptyList /\ ~Mounted /\ last'.ev \in {"mount", "resp"}
             \/ ListSettled(200) /\ Settled.dash
       /\ ListSettled(200) /\ Settled.dash =>
             /\ DOMAIN projects' = DOMAIN Settled.data
             /\ \A pid \in DOMAIN projects' : projects'[pid] = Settled.data[pid]
       /\ last'.ev = "env" =>
             \A i \in 1..Len(inflight) :
                /\ inflight[i].op = "list" /\ inflight[i].phase = "sent"
                /\ inflight'[i].phase = "replied" /\ inflight'[i].code = 200
                => inflight'[i].data = srv]_vars

\* C6 witness: a list answer has just been applied and the cache lists the
\* backend's projects.
C6_Witness ==
    /\ last.ev = "resp" /\ last.op = "list" /\ last.code = 200
    /\ Mounted
    /\ ~loading
    /\ projects # EmptyList
    /\ projects = srv

Edges ==
    {<<"pending", "processing">>, <<"processing", "completed">>,
     <<"processing", "failed">>, <<"failed", "processing">>}

\* Status `to` is `from` or comes after it along Edges.
Follows(from, to) ==
    \/ from = to
    \/ from = "pending"
    \/ from \in {"processing", "failed"} /\ to # "pending"

\* C8, as stated: the status a mounted Dashboard shows for a project changes only
\* along Edges.
C8_ShownAlongEdges ==
    [][Mounted /\ Mounted' =>
          \A pid \in DOMAIN projects \cap DOMAIN projects' :
              \/ projects'[pid].status = projects[pid].status
              \/ <<projects[pid].status, projects'[pid].status>> \in Edges]_vars

\* C8, amended: the cache never shows a status the backend has not reached: the
\* backend's status of a project is the one shown or follows it along Edges. So
\* a project is shown as completed or failed only after it has been processing on
\* the backend, and one shown as completed is completed on the backend for good;
\* the sequence shown may still skip processing or step back to it.
C8_ShownNotAheadOfBackend ==
    \A pid \in DOMAIN projects \cap DOMAIN srv :
        Follows(projects[pid].status, srv[pid].status)

\* C8 witness: a list answer has just made a mounted Dashboard show as failed a
\* project that the backend, after a retry, has completed.
C8_Witness ==
    /\ last.ev = "resp" /\ last.op = "list" /\ last.code = 200
    /\ Mounted
    /\ \E pid \in DOMAIN projects \cap DOMAIN srv :
          /\ projects[pid].status = "failed"
          /\ srv[pid].status = "completed"

\* C9: an upload request is sent only for a project the cache shows as pending.
C9_UploadOnlyPending ==
    [][Sends("upload") =>
          LET pid == inflight'[Len(inflight')].pid
          IN /\ Mounted
             /\ pid \in DOMAIN projects
             /\ projects[pid].status = "pending"]_vars

\* C9 witness: an upload request has just been sent.
C9_Witness ==
    /\ last.ev = "click" /\ last.op = "upload" /\ last.sent
    /\ \E i \in 1..Len(inflight) :
          inflight[i].op = "upload" /\ inflight[i].pid = last.pid

\* C10: a generate request is sent only for a project the cache shows as pending
\* with a files list that is present and not empty, or as failed.
C10_GenerateOnlyLegal ==
    [][Sends("generate") =>
          LET pid == inflight'[Len(inflight')].pid
          IN /\ Mounted
             /\ pid \in DOMAIN projects
             /\ \/ /\ projects[pid].status = "pending"
                   /\ projects[pid].hasFiles
                   /\ projects[pid].files > 0
                \/ projects[pid].status = "failed"]_vars

\* C10 witness: a generate request has just been sent for a project shown as
\* failed (the retry), a pending project without files having been shown before.
C10_Witness ==
    /\ last.ev = "click" /\ last.op = "generate" /\ last.sent
    /\ last.pid \in DOMAIN projects
    /\ projects[last.pid].status = "failed"

\* C11: a download request is sent only for a project the cache shows as
\* completed and only with the path segment ppt or citation_doc; the blob of a
\* ppt download is saved as <company>_Teaser.pptx, that of a citation_doc
\* download as <company>_Citations.pdf.
C11_DownloadOnlyCompleted ==
    [][/\ Sends("download") =>
             LET m == inflight'[Len(inflight')]
             IN /\ Mounted
                /\ m.pid \in DOMAIN projects
                /\ projects[m.pid].status = "completed"
                /\ m.kind \in {"ppt", "citation_doc"}
       /\ last'.ev = "resp" /\ last'.op = "download" /\ last'.code = 200 =>
             /\ Settled.kind = "ppt" => last'.file = <<"Teaser", "pptx">>
             /\ Settled.kind = "citation_doc" => last'.file = <<"Citations", "pdf">>]_vars

\* C11 witness: the citations of a completed project have just been saved.
C11_Witness ==
    /\ last.ev = "resp" /\ last.op = "download" /\ last.code = 200
    /\ last.file = <<"Citations", "pdf">>
    /\ last.pid \in DOMAIN srv
    /\ srv[last.pid].status = "completed"

\* The step was the click handler of `op`, or that handler after its await
\* settling with code c.
Clicked(op) == last'.ev = "click" /\ last'.op = op
Resolved(op) == last'.ev = "resp" /\ last'.op = op

\* The step called fetchProjects after settling a request: with a token the
\* list request is appended to what was left awaiting, without one the UI goes
\* to the login page and nothing is sent.
Refreshed ==
    IF token # NoToken
       THEN /\ Len(inflight') = Len(inflight)
            /\ \A j \in 1..Len(Rest) : inflight'[j] = Rest[j]
            /\ inflight'[Len(inflight')].op = "list"
            /\ inflight'[Len(inflight')].phase = "sent"
       ELSE /\ inflight' = Dead(Rest)
            /\ route' = "/login"

\* C12: "Create Workspace" with an empty name sends nothing and leaves the
\* cache, the name input and the visibility of the new-deal form as they were.
C12_EmptyNameNoOp ==
    [][Clicked("create") /\ newProjectName = "" =>
          /\ inflight' = inflight
          /\ projects' = projects
          /\ newProjectName' = newProjectName
          /\ showNewProject' = showNewProject]_vars

\* C12 witness: "Create Workspace" has just been clicked with an empty name over
\* a cache that lists a project, the form still open.
C12_Witness ==
    /\ last.ev = "click" /\ last.op = "create" /\ ~last.sent
    /\ Mounted
    /\ showNewProject
    /\ newProjectName = ""
    /\ projects # EmptyList

\* C13: "Create Workspace" with a name sends exactly one create request and
\* leaves the cache as it was; when the request succeeds fetchProjects is called
\* and the cache is again left as it was; a project enters the cache only with
\* a successful list answer that lists it.
C13_CreateThenRefresh ==
    [][/\ Clicked("create") /\ newProjectName # "" =>
             /\ Len(inflight') = Len(inflight) + 1
             /\ \A j \in 1..Len(inflight) : inflight'[j] = inflight[j]
             /\ inflight'[Len(inflight')].op = "create"
             /\ projects' = projects
       /\ Resolved("create") /\ last'.code = 200 =>
             /\ Refreshed
             /\ projects' = projects
       /\ \A pid \in DOMAIN projects' \ DOMAIN projects :
             /\ ListSettled(200)
             /\ pid \in DOMAIN Settled.data]_vars

\* C13 witness: the create request has just succeeded: the backend has the
\* project, the cache does not list it, and the list request is awaiting.
C13_Witness ==
    /\ last.ev = "resp" /\ last.op = "create" /\ last.code = 200 /\ last.sent
    /\ Mounted
    /\ srv # EmptyList
    /\ projects = EmptyList
    /\ inflight # << >>
    /\ inflight[Len(inflight)].op = "list"

\* C14: a delete request is sent only by the trash button's handler after the
\* user has answered the confirmation with yes; when the user declines, nothing
\* is sent and no state changes; when a delete request succeeds, fetchProjects
\* is called.
C14_DeleteAfterConfirm ==
    [][/\ Sends("delete") =>
             /\ Clicked("delete")
             /\ last'.answer
             /\ inflight'[Len(inflight')].pid = last'.pid
       /\ Clicked("delete") /\ ~last'.answer =>
             /\ inflight' = inflight
             /\ UNCHANGED <<client, auth, backend>>
       /\ Resolved("delete") /\ last'.code = 200 => Refreshed]_vars

\* C14 witness: a confirmed delete has just succeeded: the backend no longer has
\* the project, the cache still lists it, and the list request is awaiting.
C14_Witness ==
    /\ last.ev = "resp" /\ last.op = "delete" /\ last.code = 200 /\ last.sent
    /\ Mounted
    /\ last.pid \in DOMAIN projects
    /\ last.pid \notin DOMAIN srv
    /\ inflight[Len(inflight)].op = "list"

\* The handlers that call fetchProjects after their request has succeeded.
RefreshingOps == {"create", "upload", "generate", "delete"}

\* C15: a Dashboard that mounts sends a list request and starts the interval;
\* the interval runs for as long as the Dashboard is mounted and each of its
\* ticks sends a list request; create, upload, generate and delete call
\* fetchProjects once when their request has succeeded; a request of theirs, or
\* a download, that has failed sends nothing.
C15_RefreshPolicy ==
    [][/\ ~Mounted /\ Mounted' =>
             /\ Len(inflight') = Len(inflight) + 1
             /\ inflight'[Len(inflight')].op = "list"
             /\ inflight'[Len(inflight')].dash
       /\ Mounted' => timer'
       /\ last'.ev = "tick" => Mounted /\ Sends("list")
       /\ last'.ev = "resp" /\ last'.op \in RefreshingOps /\ last'.code = 200 =>
             Refreshed
       /\ last'.ev = "resp" /\ last'.op \in MutatingOps /\ last'.code # 200 =>
             inflight' = Rest]_vars

\* C15 witness: an upload has just succeeded on a mounted Dashboard whose
\* interval is running, and the list request is awaiting.
C15_Witness ==
    /\ last.ev = "resp" /\ last.op = "upload" /\ last.code = 200 /\ last.sent
    /\ Mounted /\ timer
    /\ inflight[Len(inflight)].op = "list"
    /\ inflight[Len(inflight)].phase = "sent"

\* C19: when an upload, generate, download or delete request fails, an alert is
\* raised, nothing is sent (no retry, no list request), and the cache and the
\* token are left as they were.
C19_FailureAlertsOnly ==
    [][last'.ev = "resp" /\ last'.op \in {"upload", "generate", "download", "delete"}
          /\ last'.code # 200 =>
          /\ last'.alert
          /\ inflight' = Rest
          /\ projects' = projects
          /\ token' = token]_vars

\* C19 witness: a generate request has just failed with a 500 on a mounted
\* Dashboard: the alert is up, nothing is awaiting, the project is still shown
\* as pending.
C19_Witness ==
    /\ last.ev = "resp" /\ last.op = "generate" /\ last.code = 500 /\ last.alert
    /\ Mounted
    /\ token # NoToken
    /\ inflight = << >>
    /\ last.pid \in DOMAIN projects
    /\ projects[last.pid].status = "pending"

\* C16, as stated: a list answer, whatever its code, that settles after the
\* Dashboard that sent the request has unmounted changes neither the cache, nor
\* the token, nor the route.
C16_LateListDiscarded ==
    [][last'.ev = "resp" /\ last'.op = "list" /\ ~Settled.dash =>
          /\ projects' = projects
          /\ token' = token
          /\ route' = route]_vars

\* C17: when the Dashboard is not mounted (the user has left it, or it has been
\* sent to the login page) the interval is cleared, and the interval fires only
\* in a mounted Dashboard.
C17_TimerCancelled ==
    [][/\ ~Mounted' => ~timer'
       /\ last'.ev = "tick" => Mounted /\ timer]_vars

\* C17 witness: the user has just left a Dashboard that holds a token and is
\* awaiting an answer; the interval is cleared.
C17_Witness ==
    /\ last.ev = "leave"
    /\ ~Mounted
    /\ ~timer
    /\ token # NoToken
    /\ inflight # << >>

\* The step called fetchProjects: a mount, a tick, or create, upload, generate
\* or delete after their request has succeeded.
RefreshCalled ==
    \/ last'.ev \in {"mount", "tick"}
    \/ last'.ev = "resp" /\ last'.op \in RefreshingOps /\ last'.code = 200

\* C18: fetchProjects called with no token stored sends nothing and goes to the
\* login page; the cache is left as it was (empty, for the Dashboard that has
\* just mounted).
C18_NoTokenNoRequest ==
    [][RefreshCalled /\ token = NoToken =>
          /\ inflight' = Dead(IF last'.ev = "resp" THEN Rest ELSE inflight)
          /\ route' = "/login"
          /\ projects' = (IF last'.ev = "mount" THEN EmptyList ELSE projects)
          /\ token' = NoToken]_vars

\* C18 witness: a request sent before the token was removed has succeeded and
\* its handler has called fetchProjects: nothing was sent, the UI is on the login
\* page, the cache is as it was.
C18_Witness ==
    /\ last.ev = "resp" /\ last.op \in RefreshingOps /\ last.code = 200
    /\ ~last.sent
    /\ token = NoToken
    /\ route = "/login"
    /\ projects # EmptyList
    /\ \A i \in 1..Len(inflight) : inflight[i].op # "list"

\* C20: over a backend whose projects do not change, a successful list answer
\* applied after one has already been applied (the Dashboard is no longer
\* loading) leaves the cache with the content it had.
C20_RefreshIdempotent ==
    [][ListSettled(200) /\ Settled.dash /\ ~loading => projects' = projects]_vars

\* C20 witness: two list requests were sent one after the other and both have
\* succeeded, the first sent settling last; the cache lists the backend's
\* project with its file.
C20_Witness ==
    /\ last.ev = "resp" /\ last.op = "list" /\ last.code = 200
    /\ last.late
    /\ ~loading
    /\ projects = srv
    /\ projects # EmptyList
    /\ projects[1].files = 1

\* The step was handleSubmit after its await, settling with code c: 200 for an
\* answer with an access_token, 201 for one without, 400 for a failure.
AuthSettled(c) ==
    last'.ev = "resp" /\ last'.op \in {"login", "signup"} /\ last'.code = c

\* C21: the token is written only by handleSubmit after an answer that carries
\* an access_token, and removed only by fetchProjects after a 401; no other
\* step changes it; and the backend ceasing to accept it leaves it stored.
C21_TokenLifecycle ==
    [][/\ token' # token =>
             \/ token' = Tok /\ AuthSettled(200)
             \/ token' = NoToken /\ ListSettled(401)
       /\ sessionValid /\ ~sessionValid' => token' = token]_vars

\* C21 witness: the backend no longer accepts the token, which is still stored,
\* and the interval of the mounted Dashboard has just sent a request with it.
C21_Witness ==
    /\ last.ev = "tick" /\ last.sent
    /\ Mounted
    /\ token = Tok
    /\ ~sessionValid

\* C23: handleSubmit after its await: an answer with an access_token stores it
\* and goes to the dashboard; an answer without one goes to the login page from
\* the signup form and nowhere from the login form, and stores nothing; a
\* failure stores nothing, goes nowhere and sets the error message.
C23_AuthOutcomes ==
    [][/\ AuthSettled(200) => token' = Tok /\ route' = "/dashboard"
       /\ AuthSettled(201) =>
             /\ token' = token
             /\ route' = (IF last'.op = "signup" THEN "/login" ELSE route)
       /\ AuthSettled(400) =>
             /\ token' = token
             /\ route' = route
             /\ authError' # ""]_vars

\* C23 witness: the login form, submitted and then left for the signup form,
\* has just been answered without a token: nothing is stored and the signup
\* form is still shown.
C23_Witness ==
    /\ last.ev = "resp" /\ last.op = "login" /\ last.code = 201
    /\ route = "/signup"
    /\ token = NoToken

\* C24: handleDownload, before and after its await, whether the request
\* succeeds or fails, sends no list request and leaves the cache and the token
\* as they were.
C24_DownloadNoRefresh ==
    [][/\ Clicked("download") =>
             /\ Sends("download")
             /\ \A j \in 1..Len(inflight) : inflight'[j] = inflight[j]
             /\ projects' = projects
             /\ token' = token
       /\ Resolved("download") =>
             /\ inflight' = Rest
             /\ projects' = projects
             /\ token' = token]_vars

\* C24 witness: a download has just succeeded on a mounted Dashboard and nothing
\* is awaiting.
C24_Witness ==
    /\ last.ev = "resp" /\ last.op = "download" /\ last.code = 200
    /\ Mounted
    /\ inflight = << >>
    /\ projects = srv

GenerateControls == {"generate", "retry-generate"}

\* C27, as stated: while a generate request for a project is awaiting, the
\* control stays enabled over every step of a mounted Dashboard that leaves the
\* project's status in the cache as it was.
C27_EnabledUntilStatusChanges ==
    [][\A pid \in DOMAIN projects \cap DOMAIN projects' :
          /\ Mounted /\ Mounted'
          /\ \E i \in 1..Len(inflight) :
                inflight[i].op = "generate" /\ inflight[i].pid = pid
          /\ Enabled(pid) \cap GenerateControls # {}
          /\ projects'[pid].status = projects[pid].status
          => ActionBar(projects'[pid], pid \in uploading')
                \cap GenerateControls # {}]_vars

\* C27, amended: a click on Generate or Retry leaves the control enabled, and
\* on a mounted Dashboard the control of a project is taken away only by a list
\* answer that removes the project from the cache or changes what the cache
\* holds for it (its status, or its files with the status unchanged); so a
\* second generate request for the project can be sent while the first is
\* awaiting.
C27_GenerateStaysEnabled ==
    [][/\ Clicked("generate") =>
             /\ last'.pid \in DOMAIN projects'
             /\ ActionBar(projects'[last'.pid], last'.pid \in uploading')
                   \cap GenerateControls # {}
       /\ \A pid \in DOMAIN projects :
             Mounted /\ Enabled(pid) \cap GenerateControls # {} =>
                \/ ~Mounted'
                \/ /\ pid \in DOMAIN projects'
                   /\ ActionBar(projects'[pid], pid \in uploading')
                         \cap GenerateControls # {}
                \/ /\ ListSettled(200)
                   /\ Settled.dash
                   /\ \/ pid \notin DOMAIN Settled.data
                      \/ Settled.data[pid] # projects[pid]]_vars

\* C27 witness: two generate requests for the same project are awaiting, the
\* second just sent.
C27_Witness ==
    /\ last.ev = "click" /\ last.op = "generate"
    /\ Len(inflight) = 2
    /\ \A i \in 1..2 :
          /\ inflight[i].op = "generate"
          /\ inflight[i].pid = last.pid
          /\ inflight[i].phase = "sent"

\* The upload requests of the mounted card of project pid that are awaiting.
CardUploads(q, pid) ==
    {i \in 1..Len(q) : q[i].op = "upload" /\ q[i].pid = pid /\ q[i].card}

\* C28: a mounted card has at most one upload request awaiting; its uploading
\* flag is set, and its file input disabled, exactly while it has one; and the
\* flag is reset when the request settles, with success or with failure. (The
\* request of a card that has unmounted is not counted for the card that
\* replaces it.)
C28_OneUploadPerCard ==
    [][/\ \A pid \in ProjectIds :
             /\ Cardinality(CardUploads(inflight', pid)) <= 1
             /\ pid \in uploading' <=> CardUploads(inflight', pid) # {}
             /\ pid \in uploading' /\ pid \in DOMAIN projects' =>
                   "upload" \notin ActionBar(projects'[pid], TRUE)
       /\ Resolved("upload") /\ Settled.card => last'.pid \notin uploading']_vars

\* C28 witness: an upload has just failed and the card's flag is reset: upload
\* is enabled again.
C28_Witness ==
    /\ last.ev = "resp" /\ last.op = "upload" /\ last.code = 500
    /\ Mounted
    /\ last.pid \in DOMAIN projects
    /\ last.pid \notin uploading
    /\ "upload" \in Enabled(last.pid)

\* C29: the trash button is offered for every project of the cache, whatever
\* its status; a click on it sends the delete request exactly when the user
\* confirms.
C29_DeleteAnyStatus ==
    [][/\ \A pid \in DOMAIN projects : Mounted => DeleteOffered(projects[pid])
       /\ Clicked("delete") => (last'.answer <=> Sends("delete"))]_vars

\* C29 witness: a delete request has just been sent for a project shown as
\* processing.
C29_Witness ==
    /\ last.ev = "click" /\ last.op = "delete" /\ last.answer
    /\ last.pid \in DOMAIN projects
    /\ projects[last.pid].status = "processing"
    /\ inflight[Len(inflight)].op = "delete"

\* ------------------------------------------------------------------ C30
\* C30: after every theme change and after every start-up, the value stored
\* under 'kelp-theme' equals the current theme and the data-theme attribute is
\* absent for 'default' and equal to the theme otherwise; the theme of a
\* start-up is the value the storage held, or 'default' when it held none.
C30_ThemePersisted ==
    [][/\ theme' # theme \/ (last'.ev = "mount" /\ last'.op = "theme") =>
             /\ storedTheme' = theme'
             /\ theme' = "default" => dataTheme' = NoAttr
             /\ theme' # "default" => dataTheme' = theme'
       /\ last'.ev = "mount" /\ last'.op = "theme" =>
             theme' = (IF storedTheme = NoTheme THEN "default" ELSE storedTheme)]_vars

\* A theme button has taken the page from another theme back to 'default'.
C30_Witness ==
    /\ last.ev = "click" /\ last.op = "theme"
    /\ last.was \in ThemeIds \ {"default"}
    /\ theme = "default"
    /\ storedTheme = "default"
    /\ dataTheme = NoAttr

\* ------------------------------------------------------------------ C25
\* From some point on no list request fails.
ListRequestsResolve ==
    <>[](last.ev = "resp" /\ last.op = "list" => last.code = 200)

\* C25: on a Dashboard that stays mounted with a valid token, over a backend
\* whose projects change no more, if every list request is answered and from
\* some point on none fails, the cache ends up equal to the backend's projects
\* and stays so, whatever failed or was applied out of order before.
C25_CacheConverges == ListRequestsResolve => <>[](projects = srv)

\* C25 witness: the answer to an older list request has been applied after a
\* newer one and has put a project the backend has completed back to an
\* earlier status.
C25_Witness ==
    /\ last.ev = "resp" /\ last.op = "list" /\ last.code = 200
    /\ last.late /\ last.back
    /\ srv # EmptyList /\ srv[1].status = "completed"
    /\ projects # srv

\* ------------------------------------------------------------------ C22
\* The list answer applied in this step shows project 1 as p.
Shows(p) ==
    /\ ListSettled(200) /\ Settled.dash
    /\ 1 \in DOMAIN projects'
    /\ projects'[1] = p

\* The stages of the end-to-end run, each counted only after the one before:
\* 1, a refresh shows the project pending with one file; 2, generate has been
\* accepted; 3, a refresh shows it processing; 4, a refresh shows it completed;
\* 5, the download of the teaser has returned its payload.
StageAfter ==
    IF stage = 0 /\ Shows(Project("pending", TRUE, 1)) THEN 1
    ELSE IF stage = 1 /\ Resolved("generate") /\ last'.code = 200 THEN 2
    ELSE IF stage = 2 /\ Shows(Project("processing", TRUE, 1)) THEN 3
    ELSE IF stage = 3 /\ Shows(Project("completed", TRUE, 1)) THEN 4
    ELSE IF stage = 4 /\ Resolved("download") /\ last'.code = 200
                     /\ Settled.kind = "ppt" THEN 5
    ELSE stage

\* A step of the run: the handler acts and the stage follows.
Run(A) == A /\ stage' = StageAfter /\ UNCHANGED theming

\* The user has just logged in to an account without projects.
ScenarioInit == RefreshInit /\ srv = EmptyList

\* The user creates a project, uploads, generates and downloads on a Dashboard
\* that stays mounted and polls, over a backend that answers every request it
\* handles and whose session stays valid.
ScenarioNext ==
    \/ Run(Tick)
    \/ Run(ClickNewDeal)
    \/ Run(TypeName)
    \/ Run(createProject)
    \/ \E pid \in ProjectIds : Run(handleFileUpload(pid))
    \/ \E pid \in ProjectIds : Run(handleGenerate(pid))
    \/ \E pid \in ProjectIds, type \in {"ppt", "citation_doc"} : Run(handleDownload(pid, type))
    \/ \E i \in 1..MaxInFlight : Run(fetchProjectsDone(i))
    \/ \E i \in 1..MaxInFlight : Run(createProjectDone(i))
    \/ \E i \in 1..MaxInFlight : Run(handleFileUploadDone(i))
    \/ \E i \in 1..MaxInFlight : Run(handleGenerateDone(i))
    \/ \E i \in 1..MaxInFlight : Run(handleDownloadDone(i))
    \/ \E i \in 1..MaxInFlight : Run(ServerHandle(i))
    \/ \E pid \in ProjectIds : Run(ServerFinish(pid))

ScenarioSpec == ScenarioInit /\ [][ScenarioNext]_vars

\* C22: in the end-to-end run, the refresh that first shows the project pending
\* with one file leaves Generate enabled; the refresh that shows it completed,
\* after one that showed it processing after generate was accepted, leaves the
\* teaser download enabled; and the teaser download that then succeeds saves a
\* payload as the teaser deck. The run reaches its last stage.
C22_EndToEnd ==
    [][/\ stage = 0 /\ stage' = 1 => "generate" \in Enabled(1)'
       /\ stage = 2 /\ stage' = 3 => Enabled(1)' = {}
       /\ stage = 3 /\ stage' = 4 => "download-teaser" \in Enabled(1)'
       /\ stage = 4 /\ stage' = 5 =>
             /\ last'.file = <<"Teaser", "pptx">>
             /\ srv[1].status = "completed"]_vars

\* C22 witness: the run has gone through all its stages and the teaser has
\* just been saved.
C22_Witness ==
    /\ stage = 5
    /\ last.ev = "resp" /\ last.op = "download" /\ last.code = 200
    /\ last.file = <<"Teaser", "pptx">>

====
